---- MODULE Spec2Model ----
(***************************************************************************)
(* A model of python-json-network: the frame codec (protocol.py) and the   *)
(* threaded Endpoint (json_network/network.py).                            *)
(*                                                                         *)
(* Bytes are the integers 0..255.  A Python str is the sequence of its     *)
(* character codes.  An Optional value is a sequence of length 0 (None)    *)
(* or 1.  A JSON value is a record with one field: sv (str), iv (int),     *)
(* lv (list) or ov (dict, as the insertion-ordered sequence of its         *)
(* <<key, value>> items).                                                  *)
(***************************************************************************)
EXTENDS Integers, Sequences, FiniteSets, TLC

VARIABLES
    \* ---- Endpoint (json_network/network.py) ----
    send_queue,      \* Endpoint.send_queue: the items put and not yet got
    send_unfinished, \* Queue.unfinished_tasks of send_queue
    recv_queue,      \* Endpoint.recv_queue
    recv_unfinished, \* Queue.unfinished_tasks of recv_queue
    running,         \* Endpoint.running
    recv_thread,     \* threading.Thread state: "initial", "started", "stopped"
    send_thread,     \* threading.Thread state
    main_pc,         \* where the thread that makes the Endpoint and calls run() and
                     \* close() is
    send_pc,         \* where _send_loop is
    send_package,    \* _send_loop's local send_package (Optional)
    sock,            \* _send_loop's local socket: "none", "created", "connected"
    conn,            \* the inbound connections and their handler threads
    server,          \* Endpoint.server: "listening", or "bind_failed"
    \* ---- history (what an outside observer has seen) ----
    next_id,         \* the number of SendPackages put so far
    sentinel_mark,   \* Optional: next_id when close() put the sentinel
    sock_log,        \* _send_loop's socket calls and their outcomes, in order
    sender_starts,   \* how many times a thread began _send_loop
    run_calls,       \* the calls of run() so far
    closed,          \* close() has returned
    \* ---- codec (protocol.py), driven as a pure function ----
    c_rev,           \* which revision is driven: "json_network" or "root"
    c_pc,            \* "start", "packaged", "unpackaged", "received"
    c_data,          \* the message dict given to package()
    c_blocks,        \* the DataBlocks given to package()
    c_after,         \* the caller's dict as package() left it
    c_frame,         \* what package() gave back
    c_out,           \* what unpackage() gave back
    c_errors,        \* the errors argument of package() and unpackage()
    c_buf            \* the bytes given to unpackage()

vars == <<send_queue, send_unfinished, recv_queue, recv_unfinished, running,
          recv_thread, send_thread, main_pc, send_pc, send_package, sock,
          conn, server, next_id, sentinel_mark, sock_log, sender_starts,
          run_calls, closed, c_rev, c_pc, c_data, c_blocks, c_after, c_frame, c_out,
          c_errors, c_buf>>

endpoint_vars == <<send_queue, send_unfinished, recv_queue, recv_unfinished,
          running, recv_thread, send_thread, main_pc, send_pc, send_package,
          sock, conn, server, next_id, sentinel_mark, sock_log,
          sender_starts, run_calls, closed>>

codec_vars == <<c_rev, c_pc, c_data, c_blocks, c_after, c_frame, c_out,
                c_errors, c_buf>>

(***************************************************************************)
(* Generic helpers.                                                        *)
(***************************************************************************)
None == <<>>

Some(x) == <<x>>

Min(a, b) == IF a < b THEN a ELSE b

\* Python's s[i:j] for 0 <= i <= j, clipped to the sequence like a slice is.
Slice(s, i, j) == SubSeq(s, i + 1, Min(j, Len(s)))

RECURSIVE ConcatRange(_, _, _)
\* list[lo] \o ... \o list[hi], by halves
ConcatRange(list, lo, hi) ==
    IF lo > hi THEN <<>>
    ELSE IF lo = hi THEN list[lo]
    ELSE LET mid == (lo + hi) \div 2 IN
         ConcatRange(list, lo, mid) \o ConcatRange(list, mid + 1, hi)

\* b''.join(list)
Concat(list) == ConcatRange(list, 1, Len(list))

\* What a call gives back: a value, or the exception it raised.
Return(v) == [ok |-> TRUE, value |-> v, exc |-> "none"]

Raise(e) == [ok |-> FALSE, value |-> <<>>, exc |-> e]

(***************************************************************************)
(* The strings of the protocol, as character codes.                        *)
(***************************************************************************)
\* 'data_blocks'
DATABLOCK_KEY == <<100, 97, 116, 97, 95, 98, 108, 111, 99, 107, 115>>

\* 'name'
K_name == <<110, 97, 109, 101>>

\* 'size'
K_size == <<115, 105, 122, 101>>

\* 'encoding'
K_encoding == <<101, 110, 99, 111, 100, 105, 110, 103>>

(***************************************************************************)
(* JSON values.                                                            *)
(***************************************************************************)
JStr(s) == [sv |-> s]

JInt(n) == [iv |-> n]

JList(l) == [lv |-> l]

JObj(items) == [ov |-> items]

IsStr(v) == DOMAIN v = {"sv"}

IsInt(v) == DOMAIN v = {"iv"}

IsList(v) == DOMAIN v = {"lv"}

IsObj(v) == DOMAIN v = {"ov"}

\* key in d
HasKey(d, k) == \E i \in 1..Len(d.ov) : d.ov[i][1] = k

\* d[k], for a key that d has
Get(d, k) == d.ov[CHOOSE i \in 1..Len(d.ov) : d.ov[i][1] = k][2]

\* d[k] = v: a new key goes last, an old key keeps its place
Put(d, k, v) ==
    IF HasKey(d, k)
    THEN JObj([i \in 1..Len(d.ov) |->
                 IF d.ov[i][1] = k THEN <<k, v>> ELSE d.ov[i]])
    ELSE JObj(Append(d.ov, <<k, v>>))

\* del d[k]
Del(d, k) == JObj(SelectSeq(d.ov, LAMBDA it : it[1] # k))

(***************************************************************************)
(* json.dumps(obj, ensure_ascii=False), for values built of dicts, lists,  *)
(* strs and non-negative ints: ', ' and ': ' separate, '"' and '\' are     *)
(* escaped.                                                                *)
(***************************************************************************)
RECURSIVE Digits(_)
Digits(n) ==
    IF n < 10 THEN <<48 + n>> ELSE Digits(n \div 10) \o <<48 + (n % 10)>>

Escape(s) ==
    Concat([i \in 1..Len(s) |->
               IF s[i] \in {34, 92} THEN <<92, s[i]>> ELSE <<s[i]>>])

Quote(s) == <<34>> \o Escape(s) \o <<34>>

RECURSIVE json_dumps(_), DumpList(_), DumpItems(_)
json_dumps(v) ==
    IF IsStr(v) THEN Quote(v.sv)
    ELSE IF IsInt(v) THEN Digits(v.iv)
    ELSE IF IsList(v) THEN <<91>> \o DumpList(v.lv) \o <<93>>
    ELSE <<123>> \o DumpItems(v.ov) \o <<125>>

DumpList(l) ==
    IF l = <<>> THEN <<>>
    ELSE json_dumps(Head(l))
         \o (IF Len(l) > 1 THEN <<44, 32>> \o DumpList(Tail(l)) ELSE <<>>)

DumpItems(items) ==
    IF items = <<>> THEN <<>>
    ELSE Quote(Head(items)[1]) \o <<58, 32>> \o json_dumps(Head(items)[2])
         \o (IF Len(items) > 1 THEN <<44, 32>> \o DumpItems(Tail(items))
             ELSE <<>>)

(***************************************************************************)
(* json.loads(text) for the same values: a parse gives [ok, v, i], i the   *)
(* index after the value.  Whitespace is skipped where JSON allows it, a   *)
(* repeated key keeps its last value, text after the value is an error.    *)
(***************************************************************************)
ParseFail == [ok |-> FALSE, v |-> JInt(0), i |-> 0]

ParseOk(v, i) == [ok |-> TRUE, v |-> v, i |-> i]

RECURSIVE SkipWs(_, _)
SkipWs(b, i) ==
    IF i <= Len(b) /\ b[i] \in {32, 9, 10, 13} THEN SkipWs(b, i + 1) ELSE i

RECURSIVE ScanStr(_, _, _)
\* after the opening quote: up to the closing one
ScanStr(b, i, acc) ==
    IF i > Len(b) THEN ParseFail
    ELSE IF b[i] = 34 THEN ParseOk(acc, i + 1)
    ELSE IF b[i] = 92
         THEN IF i + 1 <= Len(b) /\ b[i + 1] \in {34, 92}
              THEN ScanStr(b, i + 2, Append(acc, b[i + 1]))
              ELSE ParseFail
    ELSE IF b[i] < 32 THEN ParseFail
    ELSE ScanStr(b, i + 1, Append(acc, b[i]))

RECURSIVE ScanInt(_, _, _)
ScanInt(b, i, acc) ==
    IF i <= Len(b) /\ b[i] \in 48..57
    THEN ScanInt(b, i + 1, 10 * acc + (b[i] - 48))
    ELSE ParseOk(JInt(acc), i)

RECURSIVE ParseValue(_, _), ParseArray(_, _, _), ParseObject(_, _, _)
ParseValue(b, i0) ==
    LET i == SkipWs(b, i0) IN
    IF i > Len(b) THEN ParseFail
    ELSE IF b[i] = 34
         THEN LET s == ScanStr(b, i + 1, <<>>) IN
              IF s.ok THEN ParseOk(JStr(s.v), s.i) ELSE ParseFail
    ELSE IF b[i] = 48 THEN ParseOk(JInt(0), i + 1)
    ELSE IF b[i] \in 49..57 THEN ScanInt(b, i, 0)
    ELSE IF b[i] = 91
         THEN LET j == SkipWs(b, i + 1) IN
              IF j <= Len(b) /\ b[j] = 93 THEN ParseOk(JList(<<>>), j + 1)
              ELSE ParseArray(b, i + 1, <<>>)
    ELSE IF b[i] = 123
         THEN LET j == SkipWs(b, i + 1) IN
              IF j <= Len(b) /\ b[j] = 125 THEN ParseOk(JObj(<<>>), j + 1)
              ELSE ParseObject(b, i + 1, JObj(<<>>))
    ELSE ParseFail

\* the elements of a list, from the first one on
ParseArray(b, i, acc) ==
    LET e == ParseValue(b, i) IN
    IF ~e.ok THEN ParseFail
    ELSE LET j == SkipWs(b, e.i) IN
         IF j > Len(b) THEN ParseFail
         ELSE IF b[j] = 44 THEN ParseArray(b, j + 1, Append(acc, e.v))
         ELSE IF b[j] = 93 THEN ParseOk(JList(Append(acc, e.v)), j + 1)
         ELSE ParseFail

\* the items of a dict, from the first key on
ParseObject(b, i0, acc) ==
    LET i == SkipWs(b, i0) IN
    IF i > Len(b) \/ b[i] # 34 THEN ParseFail
    ELSE LET k == ScanStr(b, i + 1, <<>>) IN
         IF ~k.ok THEN ParseFail
         ELSE LET c == SkipWs(b, k.i) IN
              IF c > Len(b) \/ b[c] # 58 THEN ParseFail
              ELSE LET e == ParseValue(b, c + 1) IN
                   IF ~e.ok THEN ParseFail
                   ELSE LET j == SkipWs(b, e.i) IN
                        IF j > Len(b) THEN ParseFail
                        ELSE IF b[j] = 44
                             THEN ParseObject(b, j + 1, Put(acc, k.v, e.v))
                        ELSE IF b[j] = 125
                             THEN ParseOk(Put(acc, k.v, e.v), j + 1)
                        ELSE ParseFail

json_loads(text) ==
    LET r == ParseValue(text, 1) IN
    IF r.ok /\ SkipWs(text, r.i) > Len(text)
    THEN Return(r.v)
    ELSE Raise("JSONDecodeError")

(***************************************************************************)
(* struct.pack('>L', n) and struct.unpack('>L', b).                        *)
(***************************************************************************)
\* struct.calcsize('>L')
HeaderSize == 4

\* struct.pack('>L', n): four bytes, most significant first; n must fit
struct_pack(n) ==
    IF n < 0 \/ n \div 16777216 > 255 THEN Raise("struct.error")
    ELSE Return(<<n \div 16777216, (n \div 65536) % 256,
                  (n \div 256) % 256, n % 256>>)

\* struct.unpack('>L', b)[0].  The checker's integers are 32 bits wide: a
\* value of 2^30 or more is read as 2^30, which like it lies past the end
\* of every buffer of the model
struct_unpack(b) ==
    IF Len(b) # HeaderSize THEN Raise("struct.error")
    ELSE IF b[1] >= 64 THEN Return(64 * 16777216)
    ELSE Return(b[1] * 16777216 + b[2] * 65536 + b[3] * 256 + b[4])

(***************************************************************************)
(* str.encode('utf-8') and bytes.decode('utf-8') under 'strict', for       *)
(* characters below U+0800 (one or two bytes each).                        *)
(***************************************************************************)
str_encode(s) ==
    Concat([i \in 1..Len(s) |->
               IF s[i] < 128 THEN <<s[i]>>
               ELSE <<192 + (s[i] \div 64), 128 + (s[i] % 64)>>])

\* b[i] is the second byte of a two-byte character
IsSecond(b, i) == i > 1 /\ b[i] \in 128..191 /\ b[i - 1] \in 194..223

\* b[i] starts a character
IsFirst(b, i) ==
    \/ b[i] < 128
    \/ b[i] \in 194..223 /\ i < Len(b) /\ b[i + 1] \in 128..191

bytes_decode(b) ==
    IF \E i \in 1..Len(b) : ~IsFirst(b, i) /\ ~IsSecond(b, i)
    THEN Raise("UnicodeDecodeError")
    ELSE Return(Concat([i \in 1..Len(b) |->
                          IF b[i] < 128 THEN <<b[i]>>
                          ELSE IF IsSecond(b, i) THEN <<>>
                          ELSE <<(b[i] - 192) * 64 + (b[i + 1] - 128)>>]))

(***************************************************************************)
(* DataBlock.                                                              *)
(***************************************************************************)
DataBlock(name, data, encoding) ==
    [name |-> name, data |-> data, encoding |-> encoding, size |-> Len(data)]

\* Python's truth value of an Optional[str]
Truthy(opt) == opt # None /\ opt[1] # <<>>

metadata(block) ==
    JObj(<< <<K_name, JStr(block.name)>>, <<K_size, JInt(block.size)>> >>
         \o (IF Truthy(block.encoding)
             THEN << <<K_encoding, JStr(block.encoding[1])>> >>
             ELSE <<>>))

(***************************************************************************)
(* src/protocol.py: package() and unpackage().  A call gives back          *)
(* Return(..) or Raise(..) with one more field, data: the caller's dict as *)
(* the call left it (package() adds the metadata list to the dict it is    *)
(* given).                                                                 *)
(***************************************************************************)
Leaving(result, data) ==
    [ok |-> result.ok, value |-> result.value, exc |-> result.exc,
     data |-> data]

\* protocol.py line 75: data_str.encode(encoding=encoding)
root_encode(data_str) == Return(str_encode(data_str))

\* protocol.py line 94: data_bytes.decode(encoding)
root_decode(data_bytes) == bytes_decode(data_bytes)

\* json_network/protocol.py line 205:
\* data_str.encode(encoding=encoding, error=error)
jn_encode(data_str) == Raise("TypeError")

\* json_network/protocol.py line 242: data_bytes.decode(encoding, error=error)
jn_decode(data_bytes) == Raise("TypeError")

\* the call of str.encode in revision rev of package()
encode(rev, data_str) ==
    IF rev = "root" THEN root_encode(data_str) ELSE jn_encode(data_str)

\* the call of bytes.decode in revision rev of unpackage()
decode(rev, data_bytes) ==
    IF rev = "root" THEN root_decode(data_bytes) ELSE jn_decode(data_bytes)

\* lines 183-212 of json_network/protocol.py and 53-82 of protocol.py, which
\* differ only in the call of str.encode
PackageBody(data, data_blocks, rev) ==
    IF HasKey(data, DATABLOCK_KEY)
    THEN Leaving(Raise("ValueError"), data)
    ELSE LET with_meta ==
                 IF Len(data_blocks) > 0
                 THEN Put(data, DATABLOCK_KEY,
                          JList([i \in 1..Len(data_blocks) |->
                                    metadata(data_blocks[i])]))
                 ELSE data
             data_block_bytes ==
                 Concat([i \in 1..Len(data_blocks) |-> data_blocks[i].data])
             data_str == json_dumps(with_meta)
             data_bytes == encode(rev, data_str)
         IN  IF ~data_bytes.ok THEN Leaving(data_bytes, with_meta)
             ELSE LET header_value == Len(data_bytes.value)
                      header_bytes == struct_pack(header_value)
                  IN  IF ~header_bytes.ok
                      THEN Leaving(header_bytes, with_meta)
                      ELSE Leaving(Return(header_bytes.value
                                          \o data_bytes.value
                                          \o data_block_bytes),
                                   with_meta)

\* a value of the metadata list as the Python value DataBlock is given
PyValue(v) == IF IsStr(v) THEN v.sv ELSE v

RECURSIVE UnpackBlocks(_, _, _, _)
\* the loop over data_dict[DATABLOCK_KEY]: one DataBlock per entry, each
\* sliced from block_start on
UnpackBlocks(data, metas, block_start, blocks) ==
    IF metas = <<>> THEN Return(blocks)
    ELSE LET md == Head(metas) IN
         IF ~IsObj(md) THEN Raise("TypeError")
         ELSE IF ~HasKey(md, K_name) \/ ~HasKey(md, K_size)
              THEN Raise("KeyError")
         ELSE IF ~IsInt(Get(md, K_size)) THEN Raise("TypeError")
         ELSE LET size == Get(md, K_size).iv
                  block ==
                      DataBlock(PyValue(Get(md, K_name)),
                                Slice(data, block_start, block_start + size),
                                IF HasKey(md, K_encoding)
                                THEN Some(PyValue(Get(md, K_encoding)))
                                ELSE None)
              IN  UnpackBlocks(data, Tail(metas), block_start + size,
                               Append(blocks, block))

\* what iterating data_dict[DATABLOCK_KEY] yields: a list's elements, a
\* dict's keys, a str's characters; an int is not iterable
Iterate(v) ==
    IF IsList(v) THEN Return(v.lv)
    ELSE IF IsObj(v) THEN Return([i \in 1..Len(v.ov) |-> JStr(v.ov[i][1])])
    ELSE IF IsStr(v) THEN Return([i \in 1..Len(v.sv) |-> JStr(<<v.sv[i]>>)])
    ELSE Raise("TypeError")

\* `DATABLOCK_KEY in data_dict` for a dict; true of another container
\* would make data_dict[DATABLOCK_KEY] raise
Contains(v, k) ==
    IF IsObj(v) THEN Return(HasKey(v, k))
    ELSE IF IsList(v) THEN Return(\E i \in 1..Len(v.lv) : v.lv[i] = JStr(k))
    ELSE IF IsStr(v)
         THEN Return(\E i \in 0..Len(v.sv) : Slice(v.sv, i, i + Len(k)) = k)
    ELSE Raise("TypeError")

\* lines 236-265 of json_network/protocol.py and 88-116 of protocol.py, which
\* differ only in the call of bytes.decode
UnpackageBody(data, rev) ==
    LET header_size == HeaderSize
        header_bytes == Slice(data, 0, header_size)
        header_value == struct_unpack(header_bytes)
    IN  IF ~header_value.ok THEN header_value
        ELSE
        LET data_bytes ==
                Slice(data, header_size, header_size + header_value.value)
            data_str == decode(rev, data_bytes)
        IN  IF ~data_str.ok THEN data_str
            ELSE
            LET data_dict == json_loads(data_str.value) IN
            IF ~data_dict.ok THEN data_dict
            ELSE
            LET has == Contains(data_dict.value, DATABLOCK_KEY) IN
            IF ~has.ok THEN has
            ELSE IF ~has.value
                 THEN Return([data |-> data_dict.value, blocks |-> <<>>])
            ELSE IF ~IsObj(data_dict.value) THEN Raise("TypeError")
            ELSE
            LET metas == Iterate(Get(data_dict.value, DATABLOCK_KEY)) IN
            IF ~metas.ok THEN metas
            ELSE
            LET blocks ==
                    UnpackBlocks(data, metas.value,
                                 header_size + header_value.value, <<>>)
            IN  IF ~blocks.ok THEN blocks
                ELSE Return([data |-> Del(data_dict.value, DATABLOCK_KEY),
                             blocks |-> blocks.value])

\* protocol.py, package(data, data_blocks)
root_package(data, data_blocks) == PackageBody(data, data_blocks, "root")

\* protocol.py, unpackage(data)
root_unpackage(data) == UnpackageBody(data, "root")

(***************************************************************************)
(* src/json_network/protocol.py: package() and unpackage().  Both start by *)
(* `error = error if error in [...] else 'strict'`: the parameter is named *)
(* errors, so error is a local name read before it is bound.  Both pass    *)
(* error=error to str.encode / bytes.decode, which take no such keyword.   *)
(***************************************************************************)
\* The local names of a call at its start: the parameters, bound.
Locals(params) == params

\* line 181 and line 234: reading `error`
ValidateError(locals) ==
    IF "error" \in locals THEN Return("strict")
    ELSE Raise("UnboundLocalError")

\* json_network/protocol.py, package(data, data_blocks, errors=errors)
package(data, data_blocks, errors) ==
    LET error ==
            ValidateError(Locals({"data", "data_blocks", "header_fmt",
                                  "encoding", "errors"}))
    IN  IF ~error.ok THEN Leaving(error, data)
        ELSE PackageBody(data, data_blocks, "json_network")

\* json_network/protocol.py, unpackage(data, errors=errors)
unpackage(data, errors) ==
    LET error ==
            ValidateError(Locals({"data", "header_fmt", "encoding",
                                  "errors"}))
    IN  IF ~error.ok THEN error
        ELSE UnpackageBody(data, "json_network")

(***************************************************************************)
(* protocol.serialize() and protocol.deserialize(), which network.py calls *)
(* and json_network/__init__.py imports with DATA_DICT_KEY and             *)
(* DATA_BLOCK_KEY: the frame codec as the specification describes it.      *)
(***************************************************************************)
\* 'data'
DATA_DICT_KEY == <<100, 97, 116, 97>>

DATA_BLOCK_KEY == DATABLOCK_KEY

serialize(data, data_blocks) ==
    IF HasKey(data, DATA_BLOCK_KEY) THEN Raise("ValidationError")
    ELSE LET obj ==
                 JObj(<< <<DATA_DICT_KEY, data>> >>
                      \o (IF Len(data_blocks) > 0
                          THEN << <<DATA_BLOCK_KEY,
                                    JList([i \in 1..Len(data_blocks) |->
                                              metadata(data_blocks[i])])>> >>
                          ELSE <<>>))
             data_bytes == str_encode(json_dumps(obj))
             header_bytes == struct_pack(Len(data_bytes))
         IN  IF ~header_bytes.ok THEN header_bytes
             ELSE Return(header_bytes.value \o data_bytes
                         \o Concat([i \in 1..Len(data_blocks) |->
                                       data_blocks[i].data]))

RECURSIVE DeserializeBlocks(_, _, _, _)
DeserializeBlocks(data, metas, block_start, blocks) ==
    IF metas = <<>> THEN Return(blocks)
    ELSE LET md == Head(metas) IN
         IF ~IsObj(md) \/ ~HasKey(md, K_name) \/ ~HasKey(md, K_size)
         THEN Raise("FrameError")
         ELSE IF ~IsInt(Get(md, K_size)) THEN Raise("FrameError")
         ELSE IF block_start + Get(md, K_size).iv > Len(data)
              THEN Raise("FrameError")
         ELSE LET size == Get(md, K_size).iv IN
              DeserializeBlocks(
                  data, Tail(metas), block_start + size,
                  Append(blocks,
                         DataBlock(PyValue(Get(md, K_name)),
                                   Slice(data, block_start, block_start + size),
                                   IF HasKey(md, K_encoding)
                                   THEN Some(PyValue(Get(md, K_encoding)))
                                   ELSE None)))

deserialize(data) ==
    IF Len(data) < HeaderSize THEN Raise("FrameError")
    ELSE
    LET header_value == struct_unpack(Slice(data, 0, HeaderSize)).value IN
    IF Len(data) < HeaderSize + header_value THEN Raise("FrameError")
    ELSE
    LET data_str ==
            bytes_decode(Slice(data, HeaderSize, HeaderSize + header_value))
    IN  IF ~data_str.ok THEN Raise("FrameError")
        ELSE
        LET obj == json_loads(data_str.value) IN
        IF ~obj.ok \/ ~IsObj(obj.value) THEN Raise("FrameError")
        ELSE
        LET message ==
                IF HasKey(obj.value, DATA_DICT_KEY)
                THEN Get(obj.value, DATA_DICT_KEY)
                ELSE JObj(<<>>)
            metas ==
                IF HasKey(obj.value, DATA_BLOCK_KEY)
                THEN Get(obj.value, DATA_BLOCK_KEY)
                ELSE JList(<<>>)
        IN  IF ~IsList(metas) THEN Raise("FrameError")
            ELSE
            LET blocks ==
                    DeserializeBlocks(data, metas.lv,
                                      HeaderSize + header_value, <<>>)
            IN  IF ~blocks.ok THEN blocks
                ELSE Return([data |-> message, blocks |-> blocks.value])

(***************************************************************************)
(* The inputs of the model.                                                *)
(***************************************************************************)
\* how many SendPackages the application puts on send_queue
MaxSend == 2

\* how many peers connect to the endpoint
MaxConn == 2

\* how many times the application calls run()
MaxRun == 2

\* how many DataBlocks a call of package() is given
MaxBlocks == 2

\* Endpoint(buffer_size=...): small, so that a frame takes several recv()
buffer_size == 32

\* 'text', 'hi', 'f', 'g', 'h', 'utf-8', '1234'
S_text == <<116, 101, 120, 116>>

S_hi == <<104, 105>>

S_f == <<102>>

S_g == <<103>>

S_h == <<104>>

S_utf8 == <<117, 116, 102, 45, 56>>

S_1234 == <<49, 50, 51, 52>>

\* {"text": "hi"}
MsgText == JObj(<< <<S_text, JStr(S_hi)>> >>)

\* {}
MsgEmpty == JObj(<<>>)

\* {"text": "hi", "data_blocks": "hi"}: a message that uses the reserved key
MsgReserved == JObj(<< <<S_text, JStr(S_hi)>>, <<DATABLOCK_KEY, JStr(S_hi)>> >>)

Messages == {MsgText, MsgEmpty, MsgReserved}

\* DataBlock("f", b"1234")
BlockF == DataBlock(S_f, S_1234, None)

\* DataBlock("g", b"", "utf-8"): zero-length data
BlockG == DataBlock(S_g, <<>>, Some(S_utf8))

\* DataBlock("h", b"\x00\xff", ""): an encoding that is the empty string
BlockH == DataBlock(S_h, <<0, 255>>, Some(<<>>))

Blocks == {BlockF, BlockG, BlockH}

RECURSIVE SeqsUpTo(_, _)
\* the sequences over S of length at most n
SeqsUpTo(S, n) ==
    IF n = 0 THEN {<<>>}
    ELSE LET shorter == SeqsUpTo(S, n - 1) IN
         shorter \cup {Append(q, x) : q \in shorter, x \in S}

\* what a peer writes on its connection before it closes it: two frames
\* that decode, and the first 5 bytes of a frame
FrameText == serialize(MsgText, <<>>).value

FrameBlock == serialize(MsgEmpty, <<BlockF>>).value

FrameTruncated == SubSeq(FrameText, 1, 5)

PeerFrames == {FrameText, FrameBlock, FrameTruncated}

ConnIds == 1..MaxConn

(***************************************************************************)
(* Endpoint.__init__ (network.py 86-121): two empty queues, the server     *)
(* bound and listening, two threads created and not started, running       *)
(* False; or the server's constructor raised.  No peer has connected; the  *)
(* codec driver has its input.                                             *)
(***************************************************************************)
NoConn ==
    [st |-> "unused", frame |-> <<>>, unread |-> <<>>, eof |-> FALSE,
     chunk_list |-> <<>>, puts |-> 0, hook |-> 0]

\* a constructor that catches the error of bind() and goes on
EndpointInitBindErrorCaught ==
    /\ send_queue = <<>>
    /\ send_unfinished = 0
    /\ recv_queue = <<>>
    /\ recv_unfinished = 0
    /\ running = FALSE
    /\ recv_thread = "initial"
    /\ send_thread = "initial"
    /\ server \in {"listening", "bind_failed"}
    /\ main_pc = "idle"
    /\ send_pc = "unstarted"
    /\ send_package = None
    /\ sock = "none"
    /\ conn = [c \in ConnIds |-> NoConn]
    /\ next_id = 0
    /\ sentinel_mark = None
    /\ sock_log = <<>>
    /\ sender_starts = 0
    /\ run_calls = 0
    /\ closed = FALSE

\* the server binds and listens in its constructor (lines 104-107); when
\* that raises, __init__ raises and there is no Endpoint to call run() on
EndpointInit ==
    /\ send_queue = <<>>
    /\ send_unfinished = 0
    /\ recv_queue = <<>>
    /\ recv_unfinished = 0
    /\ running = FALSE
    /\ recv_thread = "initial"
    /\ send_thread = "initial"
    /\ server \in {"listening", "bind_failed"}
    /\ main_pc = IF server = "listening" THEN "idle" ELSE "init_raised"
    /\ send_pc = "unstarted"
    /\ send_package = None
    /\ sock = "none"
    /\ conn = [c \in ConnIds |-> NoConn]
    /\ next_id = 0
    /\ sentinel_mark = None
    /\ sock_log = <<>>
    /\ sender_starts = 0
    /\ run_calls = 0
    /\ closed = FALSE

CodecIdle ==
    /\ c_rev = "none"
    /\ c_pc = "idle"
    /\ c_data = MsgEmpty
    /\ c_blocks = <<>>
    /\ c_after = MsgEmpty
    /\ c_frame = Raise("none")
    /\ c_out = Raise("none")
    /\ c_errors = "strict"
    /\ c_buf = <<>>

Init == EndpointInit /\ CodecIdle

(***************************************************************************)
(* queue.Queue: put() appends and counts one more unfinished task; get()   *)
(* takes the head and blocks on an empty queue; join() blocks until every  *)
(* put() was answered by a task_done().                                    *)
(***************************************************************************)
\* a put() that goes to the head of the queue
QueuePutFirst(q, item) == <<item>> \o q

QueuePut(q, item) == Append(q, item)

\* queue.Queue() is queue.Queue(maxsize=0): "If maxsize is <= 0, the queue
\* size is infinite"; put() blocks while the queue is full
maxsize == 0

\* a queue.Queue(maxsize=1)
QueueFullAtOne(q) == Len(q) >= 1

QueueFull(q) == maxsize > 0 /\ Len(q) >= maxsize

\* a queue that gives back the newest item first, as queue.LifoQueue does
LifoGet(q) == [item |-> q[Len(q)], rest |-> SubSeq(q, 1, Len(q) - 1)]

\* get() on a queue that is not empty: the oldest item, and what is left
QueueGet(q) == [item |-> Head(q), rest |-> Tail(q)]

QueueJoinReturns(unfinished) == unfinished = 0

(***************************************************************************)
(* The application: any of its threads puts a SendPackage on send_queue    *)
(* (network.package() builds it) or gets a RecvPackage from recv_queue.    *)
(***************************************************************************)
SendPackage(id) == [id |-> id]

Enqueue ==
    /\ main_pc # "init_raised"
    /\ next_id < MaxSend
    /\ ~QueueFull(send_queue)
    /\ next_id' = next_id + 1
    /\ send_queue' = QueuePut(send_queue, Some(SendPackage(next_id + 1)))
    /\ send_unfinished' = send_unfinished + 1
    /\ UNCHANGED <<recv_queue, recv_unfinished, running, recv_thread,
                   send_thread, main_pc, send_pc, send_package, sock, conn,
                   sentinel_mark, sock_log, sender_starts, run_calls, closed>>
    /\ UNCHANGED server
    /\ UNCHANGED codec_vars

AppGet ==
    /\ recv_queue # <<>>
    /\ recv_queue' = QueueGet(recv_queue).rest
    /\ UNCHANGED <<send_queue, send_unfinished, recv_unfinished, running,
                   recv_thread, send_thread, main_pc, send_pc, send_package,
                   sock, conn, next_id, sentinel_mark, sock_log,
                   sender_starts, run_calls, closed>>
    /\ UNCHANGED server
    /\ UNCHANGED codec_vars

\* a run() that makes its threads anew on every call
RunAgain ==
    /\ main_pc = "idle"
    /\ run_calls < MaxRun
    /\ run_calls' = run_calls + 1
    /\ recv_thread' = "started"
    /\ send_thread' = "started"
    /\ send_pc' = IF send_pc \in {"unstarted", "done"} THEN "get" ELSE send_pc
    /\ sender_starts' = sender_starts + 1
    /\ running' = TRUE
    /\ UNCHANGED <<send_queue, send_unfinished, recv_queue, recv_unfinished,
                   main_pc, send_package, sock, conn, next_id, sentinel_mark,
                   sock_log, closed>>
    /\ UNCHANGED server
    /\ UNCHANGED codec_vars

(***************************************************************************)
(* Endpoint.run() (network.py 175-183), called by the thread that owns the *)
(* endpoint.  Thread.start() raises RuntimeError on a thread that was      *)
(* started before, and run() ends there.                                   *)
(***************************************************************************)
run ==
    /\ main_pc = "idle"
    /\ run_calls < MaxRun
    /\ run_calls' = run_calls + 1
    /\ IF recv_thread = "initial"
       THEN /\ recv_thread' = "started"
            /\ send_thread' = "started"
            /\ send_pc' = "get"
            /\ sender_starts' = sender_starts + 1
            /\ running' = TRUE
       ELSE UNCHANGED <<recv_thread, send_thread, send_pc, sender_starts,
                        running>>
    /\ UNCHANGED <<send_queue, send_unfinished, recv_queue, recv_unfinished,
                   main_pc, send_package, sock, conn, next_id, sentinel_mark,
                   sock_log, closed>>
    /\ UNCHANGED server
    /\ UNCHANGED codec_vars

\* a close() that calls server.shutdown() before it puts the sentinel
closeShutdownFirst ==
    /\ main_pc \in {"idle", "close191", "close192", "close193", "close202",
                    "close203"}
    /\ IF main_pc = "idle"
       THEN /\ running' = FALSE
            /\ recv_thread' =
                   IF recv_thread = "started" THEN "stopped" ELSE recv_thread
            /\ main_pc' = "close191"
            /\ UNCHANGED <<send_queue, send_unfinished, sentinel_mark,
                           closed>>
       ELSE IF main_pc = "close191"
       THEN /\ ~QueueFull(send_queue)
            /\ send_queue' = QueuePut(send_queue, None)
            /\ send_unfinished' = send_unfinished + 1
            /\ sentinel_mark' = Some(next_id)
            /\ main_pc' = "close192"
            /\ UNCHANGED <<running, recv_thread, closed>>
       ELSE IF main_pc = "close192"
       THEN /\ QueueJoinReturns(send_unfinished)
            /\ main_pc' = "close193"
            /\ UNCHANGED <<send_queue, send_unfinished, sentinel_mark,
                           running, recv_thread, closed>>
       ELSE IF main_pc = "close193"
       THEN /\ send_thread = "stopped"
            /\ main_pc' = "close202"
            /\ UNCHANGED <<send_queue, send_unfinished, sentinel_mark,
                           running, recv_thread, closed>>
       ELSE IF main_pc = "close202"
       THEN /\ recv_thread = "started"
            /\ recv_thread' = "stopped"
            /\ main_pc' = "close203"
            /\ UNCHANGED <<send_queue, send_unfinished, sentinel_mark,
                           running, closed>>
       ELSE /\ QueueJoinReturns(recv_unfinished)
            /\ main_pc' = "idle"
            /\ closed' = TRUE
            /\ UNCHANGED <<send_queue, send_unfinished, sentinel_mark,
                           running, recv_thread>>
    /\ UNCHANGED <<recv_queue, recv_unfinished, send_thread, send_pc,
                   send_package, sock, conn, next_id, sock_log, sender_starts,
                   run_calls>>
    /\ UNCHANGED server
    /\ UNCHANGED codec_vars

(***************************************************************************)
(* Endpoint.close() (network.py 185-203), line by line: main_pc is the     *)
(* line the caller is at.  server.shutdown() stops serve_forever and       *)
(* returns when that loop has ended; it never returns when the loop never  *)
(* ran.                                                                    *)
(***************************************************************************)
close ==
    /\ main_pc \in {"idle", "close191", "close192", "close193", "close202",
                    "close203"}
    /\ IF main_pc = "idle"
       THEN /\ running' = FALSE
            /\ main_pc' = "close191"
            /\ UNCHANGED <<send_queue, send_unfinished, sentinel_mark,
                           recv_thread, closed>>
       ELSE IF main_pc = "close191"
       THEN /\ ~QueueFull(send_queue)
            /\ send_queue' = QueuePut(send_queue, None)
            /\ send_unfinished' = send_unfinished + 1
            /\ sentinel_mark' = Some(next_id)
            /\ main_pc' = "close192"
            /\ UNCHANGED <<running, recv_thread, closed>>
       ELSE IF main_pc = "close192"
       THEN /\ QueueJoinReturns(send_unfinished)
            /\ main_pc' = "close193"
            /\ UNCHANGED <<send_queue, send_unfinished, sentinel_mark,
                           running, recv_thread, closed>>
       ELSE IF main_pc = "close193"
       THEN /\ send_thread = "stopped"
            /\ main_pc' = "close202"
            /\ UNCHANGED <<send_queue, send_unfinished, sentinel_mark,
                           running, recv_thread, closed>>
       ELSE IF main_pc = "close202"
       THEN /\ recv_thread = "started"
            /\ recv_thread' = "stopped"
            /\ main_pc' = "close203"
            /\ UNCHANGED <<send_queue, send_unfinished, sentinel_mark,
                           running, closed>>
       ELSE /\ QueueJoinReturns(recv_unfinished)
            /\ main_pc' = "idle"
            /\ closed' = TRUE
            /\ UNCHANGED <<send_queue, send_unfinished, sentinel_mark,
                           running, recv_thread>>
    /\ UNCHANGED <<recv_queue, recv_unfinished, send_thread, send_pc,
                   send_package, sock, conn, next_id, sock_log, sender_starts,
                   run_calls>>
    /\ UNCHANGED server
    /\ UNCHANGED codec_vars

(***************************************************************************)
(* Endpoint._send_loop (network.py 123-161), one action per blocking call. *)
(***************************************************************************)
\* a loop that goes on to the next item when it gets None
SendGetPastSentinel ==
    /\ send_pc = "get"
    /\ send_queue # <<>>
    /\ send_queue' = QueueGet(send_queue).rest
    /\ IF QueueGet(send_queue).item = None
       THEN UNCHANGED <<send_pc, send_thread, send_package, sock>>
       ELSE /\ send_package' = QueueGet(send_queue).item
            /\ sock' = "created"
            /\ send_pc' = "connect"
            /\ UNCHANGED send_thread
    /\ UNCHANGED <<send_unfinished, recv_queue, recv_unfinished, running,
                   recv_thread, main_pc, conn, next_id, sentinel_mark,
                   sock_log, sender_starts, run_calls, closed>>
    /\ UNCHANGED server
    /\ UNCHANGED codec_vars

\* a loop that takes with get_nowait(): queue.Empty ends the thread
SendGetNoWait ==
    /\ send_pc = "get"
    /\ IF send_queue = <<>>
       THEN /\ send_pc' = "done"
            /\ send_thread' = "stopped"
            /\ UNCHANGED <<send_queue, send_package, sock>>
       ELSE /\ send_queue' = QueueGet(send_queue).rest
            /\ IF QueueGet(send_queue).item = None
               THEN /\ send_pc' = "done"
                    /\ send_thread' = "stopped"
                    /\ UNCHANGED <<send_package, sock>>
               ELSE /\ send_package' = QueueGet(send_queue).item
                    /\ sock' = "created"
                    /\ send_pc' = "connect"
                    /\ UNCHANGED send_thread
    /\ UNCHANGED <<send_unfinished, recv_queue, recv_unfinished, running,
                   recv_thread, main_pc, conn, next_id, sentinel_mark,
                   sock_log, sender_starts, run_calls, closed>>
    /\ UNCHANGED server
    /\ UNCHANGED codec_vars

\* lines 139-148: get() the next item; None ends the loop and the thread,
\* anything else gets a new socket
SendGet ==
    /\ send_pc = "get"
    /\ send_queue # <<>>
    /\ send_queue' = QueueGet(send_queue).rest
    /\ IF QueueGet(send_queue).item = None
       THEN /\ send_pc' = "done"
            /\ send_thread' = "stopped"
            /\ UNCHANGED <<send_package, sock>>
       ELSE /\ send_package' = QueueGet(send_queue).item
            /\ sock' = "created"
            /\ send_pc' = "connect"
            /\ UNCHANGED send_thread
    /\ UNCHANGED <<send_unfinished, recv_queue, recv_unfinished, running,
                   recv_thread, main_pc, conn, next_id, sentinel_mark,
                   sock_log, sender_starts, run_calls, closed>>
    /\ UNCHANGED server
    /\ UNCHANGED codec_vars

\* a connect() whose exception is not caught: it ends the thread
SendConnectUncaught ==
    /\ send_pc = "connect"
    /\ \/ /\ sock' = "connected"
          /\ sock_log' = Append(sock_log, <<"connect", send_package[1].id>>)
          /\ send_pc' = "sendall"
          /\ UNCHANGED send_thread
       \/ /\ sock_log' =
                 Append(sock_log, <<"connect_failed", send_package[1].id>>)
          /\ send_pc' = "done"
          /\ send_thread' = "stopped"
          /\ UNCHANGED sock
    /\ UNCHANGED <<send_queue, send_unfinished, recv_queue, recv_unfinished,
                   running, recv_thread, main_pc, send_package, conn, next_id,
                   sentinel_mark, sender_starts, run_calls, closed>>
    /\ UNCHANGED server
    /\ UNCHANGED codec_vars

\* line 153: sock.connect(); what it raises is caught on line 156
SendConnect ==
    /\ send_pc = "connect"
    /\ \/ /\ sock' = "connected"
          /\ sock_log' = Append(sock_log, <<"connect", send_package[1].id>>)
          /\ send_pc' = "sendall"
       \/ /\ sock_log' =
                 Append(sock_log, <<"connect_failed", send_package[1].id>>)
          /\ send_pc' = "finally"
          /\ UNCHANGED sock
    /\ UNCHANGED <<send_queue, send_unfinished, recv_queue, recv_unfinished,
                   running, recv_thread, send_thread, main_pc, send_package,
                   conn, next_id, sentinel_mark, sender_starts, run_calls,
                   closed>>
    /\ UNCHANGED server
    /\ UNCHANGED codec_vars

\* line 154: sock.sendall(); what it raises is caught on line 156
SendSendall ==
    /\ send_pc = "sendall"
    /\ \/ sock_log' = Append(sock_log, <<"sendall", send_package[1].id>>)
       \/ sock_log' =
              Append(sock_log, <<"sendall_failed", send_package[1].id>>)
    /\ send_pc' = "finally"
    /\ UNCHANGED <<send_queue, send_unfinished, recv_queue, recv_unfinished,
                   running, recv_thread, send_thread, main_pc, send_package,
                   sock, conn, next_id, sentinel_mark, sender_starts,
                   run_calls, closed>>
    /\ UNCHANGED server
    /\ UNCHANGED codec_vars

\* a loop that closes its socket at the end of the try block, not in a
\* finally clause: after an exception the socket is left open
SendCloseInTry ==
    /\ send_pc = "finally"
    /\ IF sock_log[Len(sock_log)][1] \in {"connect_failed", "sendall_failed"}
       THEN UNCHANGED <<sock, sock_log>>
       ELSE /\ sock' = "none"
            /\ sock_log' = Append(sock_log, <<"close", send_package[1].id>>)
    /\ send_pc' = "get"
    /\ UNCHANGED <<send_queue, send_unfinished, recv_queue, recv_unfinished,
                   running, recv_thread, send_thread, main_pc, send_package,
                   conn, next_id, sentinel_mark, sender_starts, run_calls,
                   closed>>
    /\ UNCHANGED server
    /\ UNCHANGED codec_vars

\* lines 160-161: finally sock.close(), then the next turn of the loop
SendFinally ==
    /\ send_pc = "finally"
    /\ sock' = "none"
    /\ sock_log' = Append(sock_log, <<"close", send_package[1].id>>)
    /\ send_pc' = "get"
    /\ UNCHANGED <<send_queue, send_unfinished, recv_queue, recv_unfinished,
                   running, recv_thread, send_thread, main_pc, send_package,
                   conn, next_id, sentinel_mark, sender_starts, run_calls,
                   closed>>
    /\ UNCHANGED server
    /\ UNCHANGED codec_vars

(***************************************************************************)
(* The peers: each connects to the listening socket (bound and listening   *)
(* since Endpoint.__init__), writes its bytes, and at some time closes.    *)
(* Connections are numbered in the order they are made.                    *)
(***************************************************************************)
PeerConnect(c) ==
    /\ server = "listening"
    /\ conn[c].st = "unused"
    /\ \A d \in ConnIds : d < c => conn[d].st # "unused"
    /\ \E f \in PeerFrames :
          conn' = [conn EXCEPT ![c] =
                      [@ EXCEPT !.st = "backlog", !.frame = f, !.unread = f]]
    /\ UNCHANGED <<send_queue, send_unfinished, recv_queue, recv_unfinished,
                   running, recv_thread, send_thread, main_pc, send_pc,
                   send_package, sock, next_id, sentinel_mark, sock_log,
                   sender_starts, run_calls, closed>>
    /\ UNCHANGED server
    /\ UNCHANGED codec_vars

PeerClose(c) ==
    /\ conn[c].st \in {"backlog", "handling"}
    /\ ~conn[c].eof
    /\ conn' = [conn EXCEPT ![c].eof = TRUE]
    /\ UNCHANGED <<send_queue, send_unfinished, recv_queue, recv_unfinished,
                   running, recv_thread, send_thread, main_pc, send_pc,
                   send_package, sock, next_id, sentinel_mark, sock_log,
                   sender_starts, run_calls, closed>>
    /\ UNCHANGED server
    /\ UNCHANGED codec_vars

\* a server without ThreadingMixIn: serve_forever runs handle() itself and
\* accepts the next connection when handle() has returned
AcceptOneAtATime(c) ==
    /\ recv_thread = "started"
    /\ conn[c].st = "backlog"
    /\ \A d \in ConnIds : d < c => conn[d].st # "backlog"
    /\ \A d \in ConnIds : conn[d].st \notin {"handling", "put"}
    /\ conn' = [conn EXCEPT ![c].st = "handling"]
    /\ UNCHANGED <<send_queue, send_unfinished, recv_queue, recv_unfinished,
                   running, recv_thread, send_thread, main_pc, send_pc,
                   send_package, sock, next_id, sentinel_mark, sock_log,
                   sender_starts, run_calls, closed>>
    /\ UNCHANGED server
    /\ UNCHANGED codec_vars

(***************************************************************************)
(* ThreadedTCPServer.serve_forever in recv_thread: accept the oldest       *)
(* waiting connection and start a thread that runs handle() for it.        *)
(***************************************************************************)
Accept(c) ==
    /\ recv_thread = "started"
    /\ conn[c].st = "backlog"
    /\ \A d \in ConnIds : d < c => conn[d].st # "backlog"
    /\ conn' = [conn EXCEPT ![c].st = "handling"]
    /\ UNCHANGED <<send_queue, send_unfinished, recv_queue, recv_unfinished,
                   running, recv_thread, send_thread, main_pc, send_pc,
                   send_package, sock, next_id, sentinel_mark, sock_log,
                   sender_starts, run_calls, closed>>
    /\ UNCHANGED server
    /\ UNCHANGED codec_vars

(***************************************************************************)
(* ThreadedTCPRequestHandler.handle (network.py 48-76).                    *)
(***************************************************************************)
\* a chunk_list that all handlers share (a class attribute)
HandleRecvSharedList(c) ==
    /\ conn[c].st = "handling"
    /\ conn[c].unread # <<>>
    /\ LET tmp == Slice(conn[c].unread, 0, buffer_size) IN
       conn' = [d \in ConnIds |->
                   [conn[d] EXCEPT
                       !.chunk_list =
                           IF d = c \/ conn[d].st = "handling"
                           THEN Append(@, tmp) ELSE @,
                       !.unread =
                           IF d = c THEN Slice(@, Len(tmp), Len(@)) ELSE @]]
    /\ UNCHANGED <<send_queue, send_unfinished, recv_queue, recv_unfinished,
                   running, recv_thread, send_thread, main_pc, send_pc,
                   send_package, sock, next_id, sentinel_mark, sock_log,
                   sender_starts, run_calls, closed>>
    /\ UNCHANGED server
    /\ UNCHANGED codec_vars

\* lines 51-56: recv() gave bytes; keep them
HandleRecv(c) ==
    /\ conn[c].st = "handling"
    /\ conn[c].unread # <<>>
    /\ LET tmp == Slice(conn[c].unread, 0, buffer_size) IN
       conn' = [conn EXCEPT ![c] =
                   [@ EXCEPT !.chunk_list = Append(@, tmp),
                             !.unread = Slice(@, Len(tmp), Len(@))]]
    /\ UNCHANGED <<send_queue, send_unfinished, recv_queue, recv_unfinished,
                   running, recv_thread, send_thread, main_pc, send_pc,
                   send_package, sock, next_id, sentinel_mark, sock_log,
                   sender_starts, run_calls, closed>>
    /\ UNCHANGED server
    /\ UNCHANGED codec_vars

RecvPackage(address, data, data_blocks) ==
    [address |-> address, data |-> data, data_blocks |-> data_blocks]

\* a handler that catches the decode error and puts an empty RecvPackage
HandlePutOnError(c) ==
    /\ conn[c].st = "handling"
    /\ conn[c].unread = <<>>
    /\ conn[c].eof
    /\ LET data == Concat(conn[c].chunk_list)
           result == deserialize(data)
       IN  IF result.ok
           THEN /\ recv_queue' =
                       QueuePut(recv_queue,
                                [address |-> c, data |-> result.value.data,
                                 data_blocks |-> result.value.blocks])
                /\ conn' = [conn EXCEPT ![c] =
                               [@ EXCEPT !.st = "put", !.puts = @ + 1]]
           ELSE /\ recv_queue' =
                       QueuePut(recv_queue,
                                [address |-> c, data |-> MsgEmpty,
                                 data_blocks |-> <<>>])
                /\ conn' = [conn EXCEPT ![c].st = "error"]
    /\ recv_unfinished' = recv_unfinished + 1
    /\ UNCHANGED <<send_queue, send_unfinished, running, recv_thread,
                   send_thread, main_pc, send_pc, send_package, sock, next_id,
                   sentinel_mark, sock_log, sender_starts, run_calls, closed>>
    /\ UNCHANGED server
    /\ UNCHANGED codec_vars

\* lines 54-70: recv() gave b'' (the peer closed): join the chunks,
\* deserialize, put the RecvPackage.  What deserialize raises leaves
\* handle(); socketserver's process_request_thread catches it, reports it
\* and closes the request, and the handler's thread ends
HandlePut(c) ==
    /\ conn[c].st = "handling"
    /\ conn[c].unread = <<>>
    /\ conn[c].eof
    /\ ~QueueFull(recv_queue)
    /\ LET data == Concat(conn[c].chunk_list)
           result == deserialize(data)
       IN  IF result.ok
           THEN /\ recv_queue' =
                       QueuePut(recv_queue,
                                RecvPackage(c, result.value.data,
                                            result.value.blocks))
                /\ recv_unfinished' = recv_unfinished + 1
                /\ conn' = [conn EXCEPT ![c] =
                               [@ EXCEPT !.st = "put", !.puts = @ + 1]]
           ELSE /\ conn' = [conn EXCEPT ![c].st = "error"]
                /\ UNCHANGED <<recv_queue, recv_unfinished>>
    /\ UNCHANGED <<send_queue, send_unfinished, running, recv_thread,
                   send_thread, main_pc, send_pc, send_package, sock, next_id,
                   sentinel_mark, sock_log, sender_starts, run_calls, closed>>
    /\ UNCHANGED server
    /\ UNCHANGED codec_vars

\* a handle() that calls received() in a finally clause: also when
\* deserialize raised
HandleReceivedInFinally(c) ==
    /\ conn[c].st \in {"put", "error"}
    /\ conn[c].hook = 0
    /\ conn' = [conn EXCEPT ![c] =
                   [@ EXCEPT !.st = IF @ = "put" THEN "done" ELSE @,
                             !.hook = @ + 1]]
    /\ UNCHANGED <<send_queue, send_unfinished, recv_queue, recv_unfinished,
                   running, recv_thread, send_thread, main_pc, send_pc,
                   send_package, sock, next_id, sentinel_mark, sock_log,
                   sender_starts, run_calls, closed>>
    /\ UNCHANGED server
    /\ UNCHANGED codec_vars

\* line 76: self.server.parent.received(), which does nothing (166-173)
HandleReceived(c) ==
    /\ conn[c].st = "put"
    /\ conn' = [conn EXCEPT ![c] = [@ EXCEPT !.st = "done", !.hook = @ + 1]]
    /\ UNCHANGED <<send_queue, send_unfinished, recv_queue, recv_unfinished,
                   running, recv_thread, send_thread, main_pc, send_pc,
                   send_package, sock, next_id, sentinel_mark, sock_log,
                   sender_starts, run_calls, closed>>
    /\ UNCHANGED server
    /\ UNCHANGED codec_vars

Next ==
    \/ Enqueue
    \/ AppGet
    \/ run
    \/ close
    \/ SendGet
    \/ SendConnect
    \/ SendSendall
    \/ SendFinally
    \/ \E c \in ConnIds : PeerConnect(c)
    \/ \E c \in ConnIds : PeerClose(c)
    \/ \E c \in ConnIds : Accept(c)
    \/ \E c \in ConnIds : HandleRecv(c)
    \/ \E c \in ConnIds : HandlePut(c)
    \/ \E c \in ConnIds : HandleReceived(c)

Spec == Init /\ [][Next]_vars

(***************************************************************************)
(* The sending side alone, scheduled fairly: no peer connects (recv_queue   *)
(* stays empty), the sender thread runs whenever it can and the caller of  *)
(* close() goes on whenever its call can.                                  *)
(***************************************************************************)
SenderNext ==
    \/ Enqueue
    \/ run
    \/ close
    \/ SendGet
    \/ SendConnect
    \/ SendSendall
    \/ SendFinally

FairSpec ==
    /\ Init
    /\ [][SenderNext]_vars
    /\ WF_vars(close)
    /\ WF_vars(SendGet)
    /\ WF_vars(SendConnect)
    /\ WF_vars(SendSendall)
    /\ WF_vars(SendFinally)

(***************************************************************************)
(* The endpoint at work: everything but close() and the application's      *)
(* get().  serve_forever, the handlers' recv() loops and the sender        *)
(* thread are scheduled fairly: each takes its step when it stays able     *)
(* to.  Nothing is assumed of the peers: one that has connected may never  *)
(* close.                                                                  *)
(***************************************************************************)
WorkNext ==
    \/ Enqueue
    \/ run
    \/ SendGet
    \/ SendConnect
    \/ SendSendall
    \/ SendFinally
    \/ \E c \in ConnIds : PeerConnect(c)
    \/ \E c \in ConnIds : PeerClose(c)
    \/ \E c \in ConnIds : Accept(c)
    \/ \E c \in ConnIds : HandleRecv(c)
    \/ \E c \in ConnIds : HandlePut(c)
    \/ \E c \in ConnIds : HandleReceived(c)

WorkSpec ==
    /\ Init
    /\ [][WorkNext]_vars
    /\ WF_vars(SendGet)
    /\ WF_vars(SendConnect)
    /\ WF_vars(SendSendall)
    /\ WF_vars(SendFinally)
    /\ \A c \in ConnIds :
          /\ WF_vars(Accept(c))
          /\ WF_vars(HandleRecv(c))

(***************************************************************************)
(* The codec driven as a pure function: a message and a list of DataBlocks *)
(* are packaged, and the frame is unpackaged, by one revision's functions. *)
(***************************************************************************)
Revisions == {"json_network", "root"}

\* values of the errors argument: two the code names, one it does not
Policies == {"strict", "replace", "bogus"}

PackageOf(rev, data, data_blocks, errors) ==
    IF rev = "root" THEN root_package(data, data_blocks)
    ELSE package(data, data_blocks, errors)

UnpackageOf(rev, data, errors) ==
    IF rev = "root" THEN root_unpackage(data) ELSE unpackage(data, errors)

\* the header of a buffer, read as unpackage() reads it
HeaderOf(data) == struct_unpack(Slice(data, 0, HeaderSize))

\* frame with a header that counts `more` bytes more than its JSON has
Overstated(frame, more) ==
    struct_pack(HeaderOf(frame).value + more).value
        \o Slice(frame, HeaderSize, Len(frame))

\* what a peer may send for (data, data_blocks): the frame of the wire
\* format, that frame with bytes after it, cut short, or with a header
\* that overstates the JSON; nothing when the message has no frame
PeerBuffers(data, data_blocks) ==
    LET f == root_package(data, data_blocks) IN
    IF ~f.ok THEN {<<>>}
    ELSE {f.value,
          f.value \o <<0>>,
          f.value \o <<125, 10>>,
          Slice(f.value, 0, 5),
          Slice(f.value, 0, 3),
          Slice(f.value, 0, Len(f.value) - 1),
          Overstated(f.value, 3)}

CodecInit ==
    /\ EndpointInit
    /\ c_rev \in Revisions
    /\ c_pc = "start"
    /\ c_data \in Messages
    /\ c_blocks \in SeqsUpTo(Blocks, MaxBlocks)
    /\ c_after = c_data
    /\ c_frame = Raise("none")
    /\ c_out = Raise("none")
    /\ c_errors \in Policies
    /\ c_buf = <<>>

CodecPackage ==
    /\ c_pc = "start"
    /\ LET result == PackageOf(c_rev, c_data, c_blocks, c_errors) IN
       /\ c_frame' = [ok |-> result.ok, value |-> result.value,
                      exc |-> result.exc]
       /\ c_after' = result.data
    /\ c_pc' = "packaged"
    /\ UNCHANGED <<c_rev, c_data, c_blocks, c_out, c_errors, c_buf>>
    /\ UNCHANGED endpoint_vars

\* unpackage() of the frame package() gave
CodecUnpackage ==
    /\ c_pc = "packaged"
    /\ c_frame.ok
    /\ c_buf' = c_frame.value
    /\ c_out' = UnpackageOf(c_rev, c_frame.value, c_errors)
    /\ c_pc' = "unpackaged"
    /\ UNCHANGED <<c_rev, c_data, c_blocks, c_after, c_frame, c_errors>>
    /\ UNCHANGED endpoint_vars

\* unpackage() of bytes that came from a peer
CodecUnpackageBuffer ==
    /\ c_pc = "packaged"
    /\ \E b \in PeerBuffers(c_data, c_blocks) :
          /\ c_buf' = b
          /\ c_out' = UnpackageOf(c_rev, b, c_errors)
    /\ c_pc' = "received"
    /\ UNCHANGED <<c_rev, c_data, c_blocks, c_after, c_frame, c_errors>>
    /\ UNCHANGED endpoint_vars

CodecNext == CodecPackage \/ CodecUnpackage \/ CodecUnpackageBuffer

CodecSpec == CodecInit /\ [][CodecNext]_vars

(***************************************************************************)
(* What the log of the sender's socket calls says.                         *)
(***************************************************************************)
\* the connect attempts made for package id
Attempts(id) ==
    Cardinality({i \in 1..Len(sock_log) :
                    /\ sock_log[i][2] = id
                    /\ sock_log[i][1] \in {"connect", "connect_failed"}})

\* package id is on send_queue
InQueue(id) == \E i \in 1..Len(send_queue) : send_queue[i] = Some(SendPackage(id))

IsFailure(event) == event[1] \in {"connect_failed", "sendall_failed"}

\* close() has been called and has not returned
Closing == main_pc \in {"close191", "close192", "close193", "close202", "close203"}

(***************************************************************************)
(* C1: packages are transmitted in the order they were put on send_queue   *)
(* (ids count the puts), each on a connection of its own: the socket calls *)
(* for an earlier package all come before those for a later one, a         *)
(* payload is written right after its own connect, and a connect is the    *)
(* first call or follows the close of the previous socket.                 *)
(***************************************************************************)
C1_FifoOrder ==
    /\ \A i, j \in 1..Len(sock_log) :
          i < j => sock_log[i][2] <= sock_log[j][2]
    /\ \A i \in 1..Len(sock_log) :
          /\ sock_log[i][1] \in {"sendall", "sendall_failed"} =>
                i > 1 /\ sock_log[i - 1] = <<"connect", sock_log[i][2]>>
          /\ sock_log[i][1] \in {"connect", "connect_failed"} =>
                /\ i > 1 => sock_log[i - 1][1] = "close"
                /\ \A j \in 1..Len(sock_log) :
                      (j # i /\ sock_log[j][2] = sock_log[i][2]) =>
                          sock_log[j][1] \notin {"connect", "connect_failed"}

\* two packages were sent, each on its own connection
C1_Witness ==
    \E i, j \in 1..Len(sock_log) :
        /\ i < j
        /\ sock_log[i] = <<"sendall", 1>>
        /\ sock_log[j] = <<"sendall", 2>>

(***************************************************************************)
(* C2: once close() is called on an endpoint that run() was called on      *)
(* (here: after the application's last put on send_queue, with no inbound  *)
(* connection, so recv_queue is empty), close() returns.                   *)
(***************************************************************************)
C2_CloseReturns ==
    (main_pc = "close191" /\ send_thread = "started" /\ next_id = MaxSend)
        ~> closed

(***************************************************************************)
(* C4: a package put on send_queue after close() put the sentinel has no   *)
(* effect: the step that puts it leaves the queue and the sender as they   *)
(* were, and the package is never sent.                                    *)
(***************************************************************************)
C4_LateEnqueueNoEffect ==
    [][(sentinel_mark # None /\ next_id' # next_id) =>
          (send_queue' = send_queue /\ send_pc' = send_pc)]_vars

(***************************************************************************)
(* C4, amended: a package put on send_queue after the sentinel is taken    *)
(* onto the queue, and it is never taken off it and never sent.            *)
(***************************************************************************)
C4_LateEnqueueNeverSent ==
    sentinel_mark # None =>
        \A id \in (sentinel_mark[1] + 1)..next_id :
            /\ InQueue(id)
            /\ \A i \in 1..Len(sock_log) : sock_log[i][2] # id
            /\ send_package # Some(SendPackage(id))

\* the sender has ended and a package put after the sentinel is on the queue
C4_Witness ==
    /\ send_pc = "done"
    /\ sentinel_mark # None
    /\ \E id \in (sentinel_mark[1] + 1)..next_id : InQueue(id)

(***************************************************************************)
(* C5: when the sender thread has ended, every package put on send_queue   *)
(* before the sentinel has been tried exactly once (one connect attempt)   *)
(* and its socket closed; none is left on the queue.                       *)
(***************************************************************************)
C5_DrainedBeforeExit ==
    send_pc = "done" =>
        /\ sentinel_mark # None
        /\ \A id \in 1..sentinel_mark[1] :
              /\ Attempts(id) = 1
              /\ \E i \in 1..Len(sock_log) : sock_log[i] = <<"close", id>>
              /\ ~InQueue(id)

\* the sender has ended after two packages that were put before the sentinel
C5_Witness ==
    /\ send_pc = "done"
    /\ sentinel_mark = Some(2)
    /\ Attempts(1) = 1
    /\ Attempts(2) = 1

(***************************************************************************)
(* C6: a connect or send that fails is caught in the loop: the package is  *)
(* not put back and not tried again, its socket is closed next, and the    *)
(* sender thread is alive after it, at the finally clause and then back at *)
(* get() for the packages behind it.                                       *)
(***************************************************************************)
C6_FailureDropped ==
    /\ \A i \in 1..Len(sock_log) :
          IsFailure(sock_log[i]) =>
              /\ Attempts(sock_log[i][2]) = 1
              /\ ~InQueue(sock_log[i][2])
              /\ i < Len(sock_log) =>
                    sock_log[i + 1] = <<"close", sock_log[i][2]>>
              /\ i = Len(sock_log) =>
                    send_pc = "finally" /\ send_thread = "started"
    /\ (sock_log # <<>> /\ sock_log[Len(sock_log)][1] = "close") =>
          \/ send_pc \in {"get", "connect"}
          \/ send_pc = "done" /\ sentinel_mark # None

\* package 1 failed to connect and package 2, behind it, was sent
C6_Witness ==
    \E i, j \in 1..Len(sock_log) :
        /\ i < j
        /\ sock_log[i] = <<"connect_failed", 1>>
        /\ sock_log[j] = <<"sendall", 2>>

(***************************************************************************)
(* C7: the step in which a handler's bytes fail to decode ends that        *)
(* handler only: nothing is put on recv_queue, serve_forever goes on, and  *)
(* no other connection or handler changes.                                 *)
(***************************************************************************)
C7_DecodeFailureContained ==
    [][\A c \in ConnIds :
          (conn[c].st # "error" /\ conn'[c].st = "error") =>
              /\ ~deserialize(Concat(conn[c].chunk_list)).ok
              /\ conn'[c].puts = 0
              /\ recv_queue' = recv_queue
              /\ recv_thread' = recv_thread
              /\ \A d \in ConnIds : d # c => conn'[d] = conn[d]]_vars

\* connection 1 failed to decode; connection 2 was handled to its end and
\* its frame is on recv_queue
C7_Witness ==
    /\ conn[1].st = "error"
    /\ conn[2].st = "done"
    /\ \E i \in 1..Len(recv_queue) : recv_queue[i].address = 2

(***************************************************************************)
(* C8: one connection, one frame: a handler puts nothing before its peer   *)
(* closed, puts one RecvPackage at most, and the RecvPackage holds the     *)
(* connection's address and the message and blocks that all the bytes the  *)
(* peer wrote on that connection decode to.                                *)
(***************************************************************************)
C8_OneFramePerConnection ==
    /\ \A c \in ConnIds :
          /\ conn[c].puts <= 1
          /\ conn[c].puts = 1 => conn[c].eof /\ conn[c].unread = <<>>
          /\ conn[c].st \in {"put", "done"} <=> conn[c].puts = 1
    /\ \A i \in 1..Len(recv_queue) :
          LET decoded == deserialize(conn[recv_queue[i].address].frame) IN
          /\ decoded.ok
          /\ recv_queue[i] =
                RecvPackage(recv_queue[i].address, decoded.value.data,
                            decoded.value.blocks)

\* two connections were handled at the same time, one frame took more than
\* one recv(), and both RecvPackages are on recv_queue
C8_Witness ==
    /\ Len(recv_queue) = 2
    /\ recv_queue[1].address # recv_queue[2].address
    /\ conn[1].frame # conn[2].frame
    /\ \E c \in ConnIds : Len(conn[c].chunk_list) > 1

(***************************************************************************)
(* C9: the endpoint's life goes one way: created, running, closing,        *)
(* closed, never back; once close() is called the endpoint is not running  *)
(* again; and no more than one thread ever runs _send_loop.                *)
(***************************************************************************)
Lifecycle ==
    IF closed THEN 3 ELSE IF Closing THEN 2 ELSE IF running THEN 1 ELSE 0

C9_LinearLifecycle ==
    [][/\ Lifecycle' >= Lifecycle
       /\ sender_starts' <= 1
       /\ (Closing \/ closed) => ~running']_vars

\* run() was called twice, then close(): one sender loop, not running
C9_Witness ==
    /\ run_calls = 2
    /\ main_pc = "close192"
    /\ sender_starts = 1
    /\ ~running

(***************************************************************************)
(* C10: for a message without the reserved key and any DataBlocks, the     *)
(* frame package() gives decodes with unpackage() to that message and to   *)
(* DataBlocks with the same name, data, size and encoding, in order.       *)
(***************************************************************************)
C10_RoundTrip ==
    (c_pc = "packaged" /\ ~HasKey(c_data, DATABLOCK_KEY)) =>
        /\ c_frame.ok
        /\ LET out == UnpackageOf(c_rev, c_frame.value, c_errors) IN
           /\ out.ok
           /\ out.value.data = c_data
           /\ out.value.blocks = c_blocks

(***************************************************************************)
(* What a frame says, read off its bytes.                                  *)
(***************************************************************************)
\* four bytes as a big-endian unsigned integer
BigEndian(b) == b[1] * 16777216 + b[2] * 65536 + b[3] * 256 + b[4]

RECURSIVE SumSizes(_)
\* the sizes of the blocks of a list, added up
SumSizes(blocks) ==
    IF blocks = <<>> THEN 0 ELSE Head(blocks).size + SumSizes(Tail(blocks))

\* the data of the blocks of a list, one after the other
BlockBytes(blocks) == Concat([i \in 1..Len(blocks) |-> blocks[i].data])

(***************************************************************************)
(* C11: for a message without the reserved key and any blocks, package()   *)
(* gives a frame that starts with 4 bytes which, read as a big-endian      *)
(* unsigned integer N, count the JSON bytes alone: the N bytes after them  *)
(* are the JSON text of the message (with the block metadata), and what    *)
(* follows is the blocks' data in list order and nothing else.             *)
(***************************************************************************)
C11_HeaderCorrect ==
    (c_pc # "start" /\ ~HasKey(c_data, DATABLOCK_KEY)) =>
        /\ c_frame.ok
        /\ LET frame == c_frame.value IN
           /\ Len(frame) >= HeaderSize
           /\ LET N == BigEndian(frame)
                  text ==
                      bytes_decode(Slice(frame, HeaderSize, HeaderSize + N))
              IN  /\ Len(frame) = HeaderSize + N + SumSizes(c_blocks)
                  /\ text.ok
                  /\ json_loads(text.value) = Return(c_after)
                  /\ Slice(frame, HeaderSize + N, Len(frame))
                         = BlockBytes(c_blocks)

(***************************************************************************)
(* C12: package() of a message that has the reserved key raises            *)
(* ValueError (the code's validation error), whatever the blocks, and      *)
(* gives no frame.                                                         *)
(***************************************************************************)
C12_ReservedKeyRejected ==
    (c_pc # "start" /\ HasKey(c_data, DATABLOCK_KEY)) =>
        /\ ~c_frame.ok
        /\ c_frame.exc = "ValueError"

(***************************************************************************)
(* C13: unpackage() of a buffer that has its 4 header bytes and is shorter *)
(* than 4 + N, N being the header's value, raises and returns no message.  *)
(***************************************************************************)
C13_ShortBufferRejected ==
    (/\ c_pc \in {"unpackaged", "received"}
     /\ Len(c_buf) >= HeaderSize
     /\ Len(c_buf) < HeaderSize + BigEndian(c_buf)) =>
        ~c_out.ok

(***************************************************************************)
(* C14: unpackage() of a buffer that holds the header and the JSON of the  *)
(* frame for (c_data, c_blocks) and not all of the bytes its metadata      *)
(* declares (the last declared size runs past the end of the buffer)       *)
(* raises; it returns no block shorter than its declared size.             *)
(***************************************************************************)
C14_BlockPastEndRejected ==
    LET f == root_package(c_data, c_blocks) IN
    (/\ c_pc = "received"
     /\ f.ok
     /\ c_buf = Slice(f.value, 0, Len(c_buf))
     /\ Len(c_buf) >= HeaderSize + BigEndian(f.value)
     /\ Len(c_buf) < HeaderSize + BigEndian(f.value) + SumSizes(c_blocks)) =>
        ~c_out.ok

(***************************************************************************)
(* C15: unpackage() of the frame for (c_data, c_blocks) gives as many      *)
(* blocks as were packaged, in their order, the i-th with the name and     *)
(* size of the i-th packaged block and with the bytes of the range that    *)
(* starts at 4 + N + (the sizes before it) and has its size.               *)
(***************************************************************************)
C15_BlockOffsets ==
    LET f == root_package(c_data, c_blocks) IN
    (c_pc \in {"unpackaged", "received"} /\ f.ok /\ c_buf = f.value) =>
        /\ c_out.ok
        /\ Len(c_out.value.blocks) = Len(c_blocks)
        /\ \A i \in 1..Len(c_blocks) :
              LET start == HeaderSize + BigEndian(c_buf)
                               + SumSizes(SubSeq(c_blocks, 1, i - 1))
                  block == c_out.value.blocks[i]
              IN  /\ block.name = c_blocks[i].name
                  /\ block.size = c_blocks[i].size
                  /\ block.data = Slice(c_buf, start, start + block.size)

(***************************************************************************)
(* C16: unpackage() of the frame for (c_data, c_blocks) with more bytes    *)
(* after its last block returns, and returns the message and the blocks    *)
(* that unpackage() of the frame alone returns.                            *)
(***************************************************************************)
C16_TrailingBytesIgnored ==
    LET f == root_package(c_data, c_blocks) IN
    (/\ c_pc = "received"
     /\ f.ok
     /\ Len(c_buf) > Len(f.value)
     /\ Slice(c_buf, 0, Len(f.value)) = f.value) =>
        /\ c_out.ok
        /\ c_out = UnpackageOf(c_rev, f.value, c_errors)

(***************************************************************************)
(* C17: package() and unpackage() of json_network/protocol.py, called      *)
(* with any value of errors, named by the code or not, do what a call      *)
(* under 'strict' does: for the model's inputs, which every policy encodes *)
(* and decodes alike, that is what src/protocol.py (always strict) gives.  *)
(***************************************************************************)
C17_PolicyFallback ==
    c_rev = "json_network" =>
        /\ c_pc # "start" =>
              LET strict == root_package(c_data, c_blocks) IN
              /\ c_frame.ok = strict.ok
              /\ c_frame.value = strict.value
              /\ c_frame.exc = strict.exc
        /\ c_pc \in {"unpackaged", "received"} =>
              c_out = root_unpackage(c_buf)

(***************************************************************************)
(* C18: while a handler waits in recv() for a peer that sent all it will   *)
(* send and does not close, however long, nothing else waits for it: a     *)
(* connection that waits to be accepted is accepted, another handler       *)
(* reads all the bytes its peer has sent, and a package on send_queue is   *)
(* transmitted.                                                            *)
(***************************************************************************)
Stalled(c) ==
    /\ conn[c].st = "handling"
    /\ conn[c].unread = <<>>
    /\ ~conn[c].eof

C18_StalledPeerBlocksOnlyItself ==
    \A c \in ConnIds :
        /\ \A d \in ConnIds \ {c} :
              /\ (Stalled(c) /\ conn[d].st = "backlog")
                     ~> (conn[d].st # "backlog" \/ ~Stalled(c))
              /\ (Stalled(c) /\ conn[d].st = "handling"
                             /\ conn[d].unread # <<>>)
                     ~> (conn[d].unread = <<>> \/ ~Stalled(c))
        /\ \A id \in 1..MaxSend :
              (Stalled(c) /\ InQueue(id) /\ send_thread = "started")
                 ~> (Attempts(id) = 1 \/ ~Stalled(c))

\* the peer of connection 1 does not close; connection 2, accepted after
\* it, was handled to its end, its frame is on recv_queue, and the sender
\* has sent a package
C18_Witness ==
    /\ Stalled(1)
    /\ conn[2].st = "done"
    /\ \E i \in 1..Len(recv_queue) : recv_queue[i].address = 2
    /\ \E i \in 1..Len(sock_log) : sock_log[i][1] = "sendall"

(***************************************************************************)
(* C19: close() gets to shut the listening socket down, and it never       *)
(* waits for recv_queue after it did: a wait for recv_queue, when there    *)
(* is one, comes before server.shutdown().  In Endpoint.close the caller   *)
(* at line 203 has executed server.shutdown() at line 202 and is about to  *)
(* call recv_queue.join().                                                  *)
(***************************************************************************)
C19_DrainBeforeShutdown ==
    /\ [](main_pc # "close203")
    /\ (main_pc = "close191" /\ send_thread = "started")
           ~> (recv_thread = "stopped")

C21_PutNeverBlocks ==
    /\ ~QueueFull(send_queue)
    /\ ~QueueFull(recv_queue)
    /\ (main_pc # "init_raised" /\ next_id < MaxSend) => ENABLED Enqueue

\* both queues hold more than one item: nothing took the first before the
\* second was put
C21_Witness ==
    /\ Len(send_queue) >= 2
    /\ Len(recv_queue) >= 2

(***************************************************************************)
(* C22: package() of a message without the reserved key gives a frame      *)
(* whose JSON text has the reserved key exactly when data_blocks is not    *)
(* empty, and then its value is a list with one dict for each block, in    *)
(* the blocks' order, that has the block's name and size.                  *)
(***************************************************************************)
C22_MetadataKeyIffBlocks ==
    (c_pc # "start" /\ ~HasKey(c_data, DATABLOCK_KEY)) =>
        /\ c_frame.ok
        /\ LET frame == c_frame.value
               N == BigEndian(frame)
               text == bytes_decode(Slice(frame, HeaderSize, HeaderSize + N))
               doc == json_loads(text.value)
           IN  /\ text.ok
               /\ doc.ok
               /\ HasKey(doc.value, DATABLOCK_KEY) <=> Len(c_blocks) > 0
               /\ Len(c_blocks) > 0 =>
                     LET metas == Get(doc.value, DATABLOCK_KEY) IN
                     /\ IsList(metas)
                     /\ Len(metas.lv) = Len(c_blocks)
                     /\ \A i \in 1..Len(c_blocks) :
                           /\ HasKey(metas.lv[i], K_name)
                           /\ Get(metas.lv[i], K_name)
                                  = JStr(c_blocks[i].name)
                           /\ HasKey(metas.lv[i], K_size)
                           /\ Get(metas.lv[i], K_size)
                                  = JInt(c_blocks[i].size)

(***************************************************************************)
(* C23: metadata() of a block has the keys name and size, and the key      *)
(* encoding exactly when the block's encoding is not None; and a block     *)
(* that was packaged comes back from unpackage() with the encoding it had  *)
(* (a string, whatever it is, or None).                                    *)
(***************************************************************************)
C23_EncodingKeptExactly ==
    \A i \in 1..Len(c_blocks) :
        LET block == c_blocks[i]
            md == metadata(block)
            keys == {md.ov[j][1] : j \in 1..Len(md.ov)}
        IN  /\ c_pc # "start" =>
                  keys = {K_name, K_size}
                            \cup (IF block.encoding # None
                                  THEN {K_encoding} ELSE {})
            /\ c_pc = "unpackaged" =>
                  /\ c_out.ok
                  /\ Len(c_out.value.blocks) = Len(c_blocks)
                  /\ c_out.value.blocks[i].encoding = block.encoding

C25_EndsOnSentinelOnly ==
    [][/\ (send_thread = "started" /\ send_thread' = "stopped")
            <=> /\ send_pc = "get"
                /\ send_queue # <<>>
                /\ Head(send_queue) = None
                /\ send_queue' = Tail(send_queue)
       /\ send_thread = "stopped" =>
             /\ send_thread' = "stopped"
             /\ send_pc' = send_pc
             /\ sock_log' = sock_log
             /\ Len(send_queue') >= Len(send_queue)]_vars

\* the sender has ended; before that a connect or a send of its failed, and
\* a package put after the sentinel stays on the queue
C25_Witness ==
    /\ send_thread = "stopped"
    /\ send_pc = "done"
    /\ \E i \in 1..Len(sock_log) : IsFailure(sock_log[i])
    /\ Len(send_queue) > 0

(***************************************************************************)
(* C26: unpackage() of the frame for (c_data, c_blocks) returns a message  *)
(* without the reserved key: when the frame's JSON has the key, the        *)
(* message is the JSON's dict with that key deleted and the blocks are     *)
(* returned beside it, one for each entry of the key's list; when the      *)
(* JSON has no such key, the message is the JSON's dict as parsed and the  *)
(* list of blocks is empty.                                                *)
(***************************************************************************)
C26_ReservedKeyRemoved ==
    LET f == root_package(c_data, c_blocks) IN
    (c_pc \in {"unpackaged", "received"} /\ f.ok /\ c_buf = f.value) =>
        LET N == BigEndian(c_buf)
            text == bytes_decode(Slice(c_buf, HeaderSize, HeaderSize + N))
            doc == json_loads(text.value).value
        IN  /\ c_out.ok
            /\ ~HasKey(c_out.value.data, DATABLOCK_KEY)
            /\ IF HasKey(doc, DATABLOCK_KEY)
               THEN /\ c_out.value.data = Del(doc, DATABLOCK_KEY)
                    /\ Len(c_out.value.blocks)
                           = Len(Get(doc, DATABLOCK_KEY).lv)
               ELSE /\ c_out.value.data = doc
                    /\ c_out.value.blocks = <<>>

(***************************************************************************)
(* C27: package() of (c_data, c_blocks) with at least one block, when it   *)
(* has given a frame, has left the caller's dict as it was (the reserved   *)
(* key is not in it), and package() of that same dict and blocks again     *)
(* gives the same frame.                                                   *)
(***************************************************************************)
C27_MessageUnchanged ==
    (c_pc # "start" /\ c_frame.ok /\ Len(c_blocks) > 0) =>
        /\ c_after = c_data
        /\ ~HasKey(c_after, DATABLOCK_KEY)
        /\ LET again == PackageOf(c_rev, c_after, c_blocks, c_errors) IN
           /\ again.ok
           /\ again.value = c_frame.value

OpenSockets ==
    {id \in 1..MaxSend :
        /\ \/ \E i \in 1..Len(sock_log) :
                 /\ sock_log[i][2] = id
                 /\ sock_log[i][1] # "close"
           \/ send_package = Some(SendPackage(id)) /\ sock # "none"
        /\ \A i \in 1..Len(sock_log) : sock_log[i] # <<"close", id>>}

C30_NoSocketLeak ==
    /\ [](/\ Cardinality(OpenSockets) <= 1
          /\ \A id \in OpenSockets :
                /\ send_package = Some(SendPackage(id))
                /\ send_pc \in {"connect", "sendall", "finally"}
          /\ send_pc \in {"get", "done"} => OpenSockets = {}
          /\ sock # "none" <=> OpenSockets # {})
    /\ [][(Len(send_queue) > 0 /\ send_queue' = Tail(send_queue)) =>
             OpenSockets = {}]_vars

\* the sender has ended with no socket open, after one package whose
\* connect failed and one that was sent
C30_Witness ==
    /\ send_pc = "done"
    /\ OpenSockets = {}
    /\ \E i \in 1..Len(sock_log) : sock_log[i][1] = "connect_failed"
    /\ \E i \in 1..Len(sock_log) : sock_log[i][1] = "sendall"
    /\ \A id \in 1..MaxSend :
          \E i \in 1..Len(sock_log) : sock_log[i] = <<"close", id>>

====
